---- MODULE Spec2Model ----
(***************************************************************************)
(* reji-cleaner: retention of container image tags in a Docker registry.   *)
(* A model of src/index.ts: the semver test, the creation-time fallback    *)
(* chain, the keep/delete decision of processRepository, and the control   *)
(* flow of cleanup/main.                                                   *)
(*                                                                         *)
(* Strings the program inspects character by character (tag names, the     *)
(* RETENTION_COUNT environment value) are sequences of one-character       *)
(* strings.  Creation timestamps are ISO-8601 strings of one format; they  *)
(* are represented by their rank 1..MaxTime in collation order, and 0      *)
(* stands for a missing (undefined, null or empty) value.  Digests are     *)
(* opaque and only compared for equality; they are 1..NumDigests, and 0    *)
(* stands for null.                                                        *)
(***************************************************************************)
EXTENDS Integers, Sequences, FiniteSets, TLC

\* ------------------------------------------------------------------ bounds
MaxTags == 3
NumDigests == 3
MaxTime == 2
NumRepos == 2

\* the default of RETENTION_COUNT
DefaultRetention == 5

\* ------------------------------------------------------------- characters
Digits == {"0", "1", "2", "3", "4", "5", "6", "7", "8", "9"}

Letters ==
  {"a", "b", "c", "d", "e", "f", "g", "h", "i", "j", "k", "l", "m",
   "n", "o", "p", "q", "r", "s", "t", "u", "v", "w", "x", "y", "z",
   "A", "B", "C", "D", "E", "F", "G", "H", "I", "J", "K", "L", "M",
   "N", "O", "P", "Q", "R", "S", "T", "U", "V", "W", "X", "Y", "Z"}

\* the class \w of a JavaScript regular expression
WordChars == Digits \cup Letters \cup {"_"}

\* the class [\w.]
SuffixChars == WordChars \cup {"."}

DigitVal(c) ==
  CASE c = "0" -> 0 [] c = "1" -> 1 [] c = "2" -> 2 [] c = "3" -> 3
    [] c = "4" -> 4 [] c = "5" -> 5 [] c = "6" -> 6 [] c = "7" -> 7
    [] c = "8" -> 8 [] c = "9" -> 9

\* the number of consecutive characters of class cls in s from position i
RECURSIVE RunLen(_, _, _)
RunLen(s, i, cls) ==
  IF i <= Len(s) /\ s[i] \in cls THEN 1 + RunLen(s, i + 1, cls) ELSE 0

\* ------------------------------------------------------------ isSemverTag
\* Each matcher takes a position in s and returns the position after its
\* match, or 0 when it cannot match.  No class overlaps the character that
\* follows it in SEMVER_PATTERN, so greedy matching never backtracks.

\* v?
MatchOptV(s, i) == IF i <= Len(s) /\ s[i] = "v" THEN i + 1 ELSE i

\* (\d+)
MatchNumber(s, i) ==
  IF i = 0 THEN 0
  ELSE LET n == RunLen(s, i, Digits) IN IF n = 0 THEN 0 ELSE i + n

\* \.
MatchDot(s, i) ==
  IF i # 0 /\ i <= Len(s) /\ s[i] = "." THEN i + 1 ELSE 0

\* (?:-[\w.]+)?  and  (?:\+[\w.]+)?
MatchOptSuffix(s, i, lead) ==
  IF i = 0 THEN 0
  ELSE IF i <= Len(s) /\ s[i] = lead /\ RunLen(s, i + 1, SuffixChars) > 0
       THEN i + 1 + RunLen(s, i + 1, SuffixChars)
       ELSE i

\* the position after the longest match of SEMVER_PATTERN without its $
SemverEnd(s) ==
  LET major == MatchNumber(s, MatchOptV(s, 1))
      minor == MatchNumber(s, MatchDot(s, major))
      patch == MatchNumber(s, MatchDot(s, minor))
      pre   == MatchOptSuffix(s, patch, "-")
  IN  MatchOptSuffix(s, pre, "+")

isSemverTag(tag) == SemverEnd(tag) = Len(tag) + 1

\* ------------------------------------------------------------- tag names
TagLatest == <<"l", "a", "t", "e", "s", "t">>
TagV100 == <<"v", "1", ".", "0", ".", "0">>
TagRc == <<"1", ".", "2", ".", "3", "-", "r", "c", ".", "1">>
TagV10 == <<"v", "1", ".", "0">>

TagNames == {TagLatest, TagV100, TagRc, TagV10}

\* ------------------------------------------------- configuration (main)
\* Number.parseInt(s, 10): an optional sign and the longest run of digits;
\* NaN when there is no digit.  A number is [nan |-> FALSE, n |-> value].
NaN == [nan |-> TRUE, n |-> 0]

RECURSIVE DigitsValue(_, _, _)
DigitsValue(s, i, n) ==
  IF n = 0 THEN 0
  ELSE DigitsValue(s, i, n - 1) * 10 + DigitVal(s[i + n - 1])

parseInt(s) ==
  LET signed == Len(s) > 0 /\ s[1] \in {"-", "+"}
      first  == IF signed THEN 2 ELSE 1
      n      == RunLen(s, first, Digits)
      value  == DigitsValue(s, first, n)
  IN  IF n = 0 THEN NaN
      ELSE [nan |-> FALSE, n |-> IF signed /\ s[1] = "-" THEN 0 - value ELSE value]

\* the values of RETENTION_COUNT: unset (or empty), "0", "1", "2", "3",
\* "-1" and "x"
RetentionEnv ==
  {<<>>, <<"0">>, <<"1">>, <<"2">>, <<"3">>, <<"-", "1">>, <<"x">>}

\* process.env.RETENTION_COUNT || "5", parsed
RetentionOf(env) ==
  IF env = <<>> THEN [nan |-> FALSE, n |-> DefaultRetention] ELSE parseInt(env)

\* the values of DRY_RUN
DryRunEnv == {"unset", "true", "false"}

DryRunOf(env) == env # "false"

\* ------------------------------------------------------ the tag records
\* TagInfo: name, digest, created (0: undefined)
TagInfo(name, digest, created) ==
  [name |-> name, digest |-> digest, created |-> created]

Digests == 1..NumDigests
Times == 1..MaxTime

\* String.prototype.localeCompare on two timestamps
localeCompare(x, y) == IF x < y THEN -1 ELSE IF x > y THEN 1 ELSE 0

\* the comparator of tagInfoList.sort
CompareTags(a, b) ==
  IF a.created = 0 /\ b.created = 0 THEN 0
  ELSE IF a.created = 0 THEN 1
  ELSE IF b.created = 0 THEN -1
  ELSE localeCompare(b.created, a.created)

\* x put behind the last element that does not sort after it
InsertSorted(sorted, x) ==
  LET before == {i \in DOMAIN sorted : CompareTags(sorted[i], x) <= 0}
      k == IF before = {} THEN 0 ELSE CHOOSE i \in before : \A j \in before : j <= i
  IN  SubSeq(sorted, 1, k) \o <<x>> \o SubSeq(sorted, k + 1, Len(sorted))

\* Array.prototype.sort with CompareTags: a stable sort
RECURSIVE SortTags(_)
SortTags(list) ==
  IF list = <<>> THEN <<>>
  ELSE InsertSorted(SortTags(SubSeq(list, 1, Len(list) - 1)), list[Len(list)])

\* slice(0, end - 1): the window one record short
SliceOneShort(list, end) ==
  LET len == Len(list)
      rel == IF end.nan THEN 0 ELSE end.n - 1
      fin == IF rel < 0 THEN (IF len + rel < 0 THEN 0 ELSE len + rel)
             ELSE IF rel > len THEN len ELSE rel
  IN  SubSeq(list, 1, fin)

\* Array.prototype.slice(0, end)
Slice(list, end) ==
  LET len == Len(list)
      rel == IF end.nan THEN 0 ELSE end.n
      fin == IF rel < 0 THEN (IF len + rel < 0 THEN 0 ELSE len + rel)
             ELSE IF rel > len THEN len ELSE rel
  IN  SubSeq(list, 1, fin)

DigestsOf(list) == {list[i].digest : i \in DOMAIN list}

\* tagsToKeep.some((t) => isSemverTag(t.name))
HasSemver(list) == \E i \in DOMAIN list : isSemverTag(list[i].name)

\* the find predicate without its negation: semver-named records whose
\* digest a kept record has
SemverCandidatesAlreadyKept(sorted, keep) ==
  {i \in DOMAIN sorted :
     isSemverTag(sorted[i].name) /\ sorted[i].digest \in DigestsOf(keep)}

\* the indices tagInfoList.find may return: semver-named records whose
\* digest no kept record has
SemverCandidates(sorted, keep) ==
  {i \in DOMAIN sorted :
     isSemverTag(sorted[i].name) /\ sorted[i].digest \notin DigestsOf(keep)}

\* the top-up searching tagsToKeep instead of tagInfoList
TopUpWithinKeep(sorted, keep) ==
  IF HasSemver(keep) THEN keep
  ELSE LET cand == SemverCandidates(keep, keep)
       IN  IF cand = {} THEN keep
           ELSE Append(keep, keep[CHOOSE i \in cand : \A j \in cand : i <= j])

\* tagsToKeep after the top-up
TopUp(sorted, keep) ==
  IF HasSemver(keep) THEN keep
  ELSE LET cand == SemverCandidates(sorted, keep)
       IN  IF cand = {} THEN keep
           ELSE Append(keep, sorted[CHOOSE i \in cand : \A j \in cand : i <= j])

\* digestToTags after one more tag (a Map in insertion order, as a sequence
\* of [digest, tags])
GroupTag(groups, tag, digest) ==
  IF \E i \in DOMAIN groups : groups[i].digest = digest
  THEN [i \in DOMAIN groups |->
          IF groups[i].digest = digest
          THEN [groups[i] EXCEPT !.tags = Append(@, tag)]
          ELSE groups[i]]
  ELSE Append(groups, [digest |-> digest, tags |-> <<tag>>])

RECURSIVE GroupTags(_)
GroupTags(list) ==
  IF list = <<>> THEN <<>>
  ELSE GroupTag(GroupTags(SubSeq(list, 1, Len(list) - 1)),
                list[Len(list)].name, list[Len(list)].digest)

\* the marking loop starting at the second entry of digestToTags
MarkForDeletionFromSecond(groups, keepDigests) ==
  LET marked == SelectSeq(SubSeq(groups, 2, Len(groups)),
                          LAMBDA g : g.digest \notin keepDigests)
  IN  [i \in DOMAIN marked |-> marked[i].digest]

\* digestsToDelete in insertion order: the keys of digestToTags that
\* digestsToKeep does not hold
MarkForDeletion(groups, keepDigests) ==
  LET marked == SelectSeq(groups, LAMBDA g : g.digest \notin keepDigests)
  IN  [i \in DOMAIN marked |-> marked[i].digest]

\* ------------------------------------------- the registry, seen by one tag
\* What the registry answers for one tag: the manifest (GET), the config
\* blob, the digest (HEAD), the referrers of the digest and the blob of a
\* referrer.  ok = FALSE is a transport error or a non-2xx status.
\* manifest.history[0].v1Compatibility: absent, a string JSON.parse
\* rejects, or an object with (created # 0) or without a created field
Histories ==
  {[kind |-> "absent", created |-> 0], [kind |-> "malformed", created |-> 0]}
    \cup {[kind |-> "object", created |-> c] : c \in 0..MaxTime}

ManifestResponses ==
  {[ok |-> FALSE, hasConfig |-> FALSE, history |-> [kind |-> "absent", created |-> 0]]}
    \cup {[ok |-> TRUE, hasConfig |-> h, history |-> hi] :
            h \in BOOLEAN, hi \in Histories}

\* created and the org.opencontainers.image.created label of the config
ConfigResponses ==
  {[ok |-> FALSE, created |-> 0, label |-> 0]}
    \cup {[ok |-> TRUE, created |-> c, label |-> l] :
            c \in 0..MaxTime, l \in 0..MaxTime}

\* what a referrer's artifactType or mediaType contains
ArtifactTypes == {"absent", "intoto", "provenance", "other"}
MediaTypes == {"intoto", "attestation", "other"}

\* the referrers: no answer, or a manifests list of at most one entry
ReferrersResponses ==
  {[ok |-> FALSE, manifests |-> <<>>], [ok |-> TRUE, manifests |-> <<>>]}
    \cup {[ok |-> TRUE, manifests |-> <<[artifactType |-> a, mediaType |-> m]>>] :
            a \in ArtifactTypes, m \in MediaTypes}

\* the attestation blob: predicate.runDetails.metadata.startedOn and
\* predicate.metadata.buildStartedOn
BlobResponses ==
  {[ok |-> FALSE, startedOn |-> 0, buildStartedOn |-> 0]}
    \cup {[ok |-> TRUE, startedOn |-> s, buildStartedOn |-> b] :
            s \in 0..MaxTime, b \in 0..MaxTime}

RegistryViews ==
  [manifest : ManifestResponses, config : ConfigResponses, head : 0..1,
   referrers : ReferrersResponses, blob : BlobResponses]

\* the predicate of referrers.manifests.find
IsAttestation(m) ==
  \/ m.artifactType \in {"intoto", "provenance"}
  \/ m.mediaType \in {"intoto", "attestation"}

\* getAttestationBuildTime: 0 is null
getAttestationBuildTime(v) ==
  IF ~v.referrers.ok THEN 0
  ELSE LET found == {i \in DOMAIN v.referrers.manifests :
                       IsAttestation(v.referrers.manifests[i])}
       IN  IF found = {} THEN 0
           ELSE IF ~v.blob.ok THEN 0
           ELSE IF v.blob.startedOn # 0 THEN v.blob.startedOn
           ELSE IF v.blob.buildStartedOn # 0 THEN v.blob.buildStartedOn
           ELSE 0

\* the tail of getTagCreatedTime, from the second HEAD on
AttestationStep(v) ==
  IF v.head # 0 THEN getAttestationBuildTime(v) ELSE 0

\* the v1-compatibility step and what follows it; JSON.parse throwing ends
\* in the catch of getTagCreatedTime, which returns null
HistoryStep(v) ==
  IF v.manifest.history.kind = "absent" THEN AttestationStep(v)
  ELSE IF v.manifest.history.kind = "malformed" THEN 0
  ELSE IF v.manifest.history.created # 0 THEN v.manifest.history.created
  ELSE AttestationStep(v)

\* getTagCreatedTime: 0 is null
getTagCreatedTime(v) ==
  IF ~v.manifest.ok THEN 0
  ELSE IF v.manifest.hasConfig /\ v.config.ok /\ v.config.created # 0
       THEN v.config.created
  ELSE IF v.manifest.hasConfig /\ v.config.ok /\ v.config.label # 0
       THEN v.config.label
  ELSE HistoryStep(v)

\* every value getTagCreatedTime returns
CreatedOutcomes == {getTagCreatedTime(v) : v \in RegistryViews}

\* ------------------------------------------------------------------ state
VARIABLES
  config,            \* Config: dryRun, retentionCount, repositories
  pc,                \* where main/cleanup/processRepository stands
  exitCode,          \* the status the process ends with
  printed,           \* the messages logged, by kind
  runCalls,          \* the requests cleanup itself has issued, in order
  deleteRequests,    \* the DELETE requests sent to the registry in this run
  repositories,      \* cleanup: the repository list
  repoIdx,           \* cleanup: the repository being processed
  totalDeleted,      \* cleanup: totalDeleted
  totalKept,         \* cleanup: totalKept
  repoCalls,         \* the client calls of the current processRepository
  tags,              \* processRepository: tags
  tagIdx,            \* processRepository: the tag the for loop is at
  tagInfoList,       \* processRepository: tagInfoList
  digestToTags,      \* processRepository: digestToTags
  tagsToKeep,        \* processRepository: tagsToKeep
  digestsToKeep,     \* processRepository: digestsToKeep
  digestsToDelete,   \* processRepository: digestsToDelete
  delIdx,            \* processRepository: the digest the deletion loop is at
  deleted,           \* processRepository: deleted
  result,            \* cleanup: what processRepository returned
  view,              \* getTagCreatedTime alone: the registry's answers
  createdTime        \* getTagCreatedTime alone: the value returned

cleanupVars ==
  <<exitCode, printed, runCalls, repositories, repoIdx, totalDeleted, totalKept>>

localVars ==
  <<tags, tagIdx, tagInfoList, digestToTags, tagsToKeep, digestsToKeep,
    digestsToDelete, delIdx, deleted>>

timeVars == <<view, createdTime>>

vars ==
  <<config, pc, deleteRequests, repoCalls, result, cleanupVars, localVars, timeVars>>

\* a view in which nothing answers
NoView ==
  [manifest |-> [ok |-> FALSE, hasConfig |-> FALSE,
                 history |-> [kind |-> "absent", created |-> 0]],
   config |-> [ok |-> FALSE, created |-> 0, label |-> 0],
   head |-> 0,
   referrers |-> [ok |-> FALSE, manifests |-> <<>>],
   blob |-> [ok |-> FALSE, startedOn |-> 0, buildStartedOn |-> 0]]

\* REPOSITORIES: unset, or the first n repositories
RepositoryLists == {[i \in 1..n |-> i] : n \in 0..NumRepos}

\* the values of RETENTION_COUNT the whole run is modelled with: unset,
\* "0" and "1"
RunRetentionEnv == {<<>>, <<"0">>, <<"1">>}

\* main: the configuration read from the environment
Configs ==
  {[dryRun |-> DryRunOf(d), retentionCount |-> RetentionOf(r), repositories |-> l] :
     d \in DryRunEnv, r \in RunRetentionEnv, l \in RepositoryLists}

NoResult == [deleted |-> 0, kept |-> 0]

\* the locals of processRepository on entry
LocalsInit ==
  /\ tags = <<>>
  /\ tagIdx = 1
  /\ tagInfoList = <<>>
  /\ digestToTags = <<>>
  /\ tagsToKeep = <<>>
  /\ digestsToKeep = {}
  /\ digestsToDelete = <<>>
  /\ delIdx = 1
  /\ deleted = 0

Init ==
  /\ config \in Configs
  /\ pc = "checkAPI"
  /\ exitCode = 0
  /\ printed = {}
  /\ runCalls = <<>>
  /\ deleteRequests = 0
  /\ repositories = <<>>
  /\ repoIdx = 0
  /\ totalDeleted = 0
  /\ totalKept = 0
  /\ repoCalls = <<>>
  /\ result = NoResult
  /\ LocalsInit
  /\ view = NoView
  /\ createdTime = 0

\* ---------------------------------------------------------------- cleanup
\* cleanup setting the exit status on a failed probe and going on
CheckAPIGoesOn ==
  /\ pc = "checkAPI"
  /\ runCalls' = Append(runCalls, "GET /v2/")
  /\ \E ok \in BOOLEAN :
       IF ok
       THEN /\ pc' = "getRepositories"
            /\ UNCHANGED <<exitCode, printed>>
       ELSE /\ pc' = "getRepositories"
            /\ exitCode' = 1
            /\ printed' = printed \cup {"Failed to connect to Docker Registry API"}
  /\ UNCHANGED <<config, deleteRequests, repositories, repoIdx, totalDeleted,
                 totalKept, repoCalls, result, localVars, timeVars>>

\* cleanup up to the probe: a failed probe ends the process with status 1
CheckAPI ==
  /\ pc = "checkAPI"
  /\ runCalls' = Append(runCalls, "GET /v2/")
  /\ \E ok \in BOOLEAN :
       IF ok
       THEN /\ pc' = "getRepositories"
            /\ UNCHANGED <<exitCode, printed>>
       ELSE /\ pc' = "exited"
            /\ exitCode' = 1
            /\ printed' = printed \cup {"Failed to connect to Docker Registry API"}
  /\ UNCHANGED <<config, deleteRequests, repositories, repoIdx, totalDeleted,
                 totalKept, repoCalls, result, localVars, timeVars>>

\* what the catalog request yields: [] on failure, else data.repositories
CatalogResponses == RepositoryLists

\* getRepositories and the test of its result: with no repository cleanup
\* returns and the process ends
GetRepositories ==
  /\ pc = "getRepositories"
  /\ \E list \in CatalogResponses :
       /\ IF Len(config.repositories) > 0
          THEN /\ list = config.repositories
               /\ runCalls' = runCalls
          ELSE runCalls' = Append(runCalls, "GET /v2/_catalog")
       /\ repositories' = list
       /\ IF Len(list) = 0
          THEN /\ printed' = printed \cup {"No repositories found"}
               /\ pc' = "exited"
               /\ repoIdx' = repoIdx
          ELSE /\ printed' = printed
               /\ pc' = "processRepository"
               /\ repoIdx' = 1
  /\ UNCHANGED <<config, exitCode, deleteRequests, totalDeleted, totalKept,
                 repoCalls, result, localVars, timeVars>>

\* processRepository returns {deleted: d, kept: k} to the loop of cleanup
Return(d, k) ==
  /\ result' = [deleted |-> d, kept |-> k]
  /\ pc' = "returned"
  /\ UNCHANGED cleanupVars

\* a client call, as logged in repoCalls
Call(op, tag, digest, sent, status) ==
  [op |-> op, tag |-> tag, digest |-> digest, sent |-> sent, status |-> status]

\* the tag names of the registry the run is modelled against
RunTagNames == {TagLatest, TagV100, TagV10}

\* what getTags returns: [] on failure, else data.tags
TagListResponses ==
  {<<>>} \cup {<<a>> : a \in RunTagNames}
    \cup {l \in RunTagNames \X RunTagNames : l[1] # l[2]}

\* processRepository from its entry to the for loop over the tags
GetTags ==
  /\ pc = "processRepository"
  /\ repoCalls' = <<Call("getTags", <<>>, 0, TRUE, 0)>>
  /\ \E list \in TagListResponses :
       /\ tags' = list
       /\ IF Len(list) = 0
          THEN Return(0, 0)
          ELSE /\ pc' = "resolve"
               /\ UNCHANGED <<result, cleanupVars>>
  /\ tagIdx' = 1
  /\ tagInfoList' = <<>>
  /\ digestToTags' = <<>>
  /\ tagsToKeep' = <<>>
  /\ digestsToKeep' = {}
  /\ digestsToDelete' = <<>>
  /\ delIdx' = 1
  /\ deleted' = 0
  /\ UNCHANGED <<config, deleteRequests, timeVars>>

\* what HEAD of a manifest yields: null (0) or the digest header
HeadResponses == 0..NumDigests

\* the for loop over the tags left after the first tag with a digest
ResolveTagFirstOnly ==
  /\ pc = "resolve"
  /\ \E digest \in HeadResponses, created \in CreatedOutcomes :
       IF digest = 0
       THEN /\ created = 0
            /\ repoCalls' =
                 Append(repoCalls, Call("getManifestDigest", tags[tagIdx], 0, TRUE, 0))
            /\ pc' = IF tagIdx < Len(tags) THEN "resolve" ELSE "decide"
            /\ UNCHANGED <<tagInfoList, digestToTags>>
       ELSE /\ repoCalls' =
                 repoCalls \o <<Call("getManifestDigest", tags[tagIdx], 0, TRUE, 0),
                                Call("getTagCreatedTime", tags[tagIdx], 0, TRUE, 0)>>
            /\ tagInfoList' = Append(tagInfoList, TagInfo(tags[tagIdx], digest, created))
            /\ digestToTags' = GroupTag(digestToTags, tags[tagIdx], digest)
            /\ pc' = "decide"
  /\ tagIdx' = tagIdx + 1
  /\ UNCHANGED <<config, deleteRequests, result, cleanupVars, tags, tagsToKeep,
                 digestsToKeep, digestsToDelete, delIdx, deleted, timeVars>>

\* one iteration of the for loop over the tags: getManifestDigest, and for a
\* tag with a digest getTagCreatedTime, the push and the grouping
ResolveTag ==
  /\ pc = "resolve"
  /\ \E digest \in HeadResponses, created \in CreatedOutcomes :
       IF digest = 0
       THEN /\ created = 0
            /\ repoCalls' =
                 Append(repoCalls, Call("getManifestDigest", tags[tagIdx], 0, TRUE, 0))
            /\ UNCHANGED <<tagInfoList, digestToTags>>
       ELSE /\ repoCalls' =
                 repoCalls \o <<Call("getManifestDigest", tags[tagIdx], 0, TRUE, 0),
                                Call("getTagCreatedTime", tags[tagIdx], 0, TRUE, 0)>>
            /\ tagInfoList' = Append(tagInfoList, TagInfo(tags[tagIdx], digest, created))
            /\ digestToTags' = GroupTag(digestToTags, tags[tagIdx], digest)
  /\ tagIdx' = tagIdx + 1
  /\ pc' = IF tagIdx < Len(tags) THEN "resolve" ELSE "decide"
  /\ UNCHANGED <<config, deleteRequests, result, cleanupVars, tags, tagsToKeep,
                 digestsToKeep, digestsToDelete, delIdx, deleted, timeVars>>

\* processRepository from the end of the for loop to the deletion loop: the
\* sort, the slice, the semver top-up and the two digest sets
Decide ==
  /\ pc = "decide"
  /\ IF Len(tagInfoList) = 0
     THEN /\ Return(0, 0)
          /\ UNCHANGED <<tagInfoList, tagsToKeep, digestsToKeep, digestsToDelete>>
     ELSE LET sorted == SortTags(tagInfoList)
              keep   == TopUp(sorted, Slice(sorted, config.retentionCount))
              marked == MarkForDeletion(digestToTags, DigestsOf(keep))
          IN  /\ tagInfoList' = sorted
              /\ tagsToKeep' = keep
              /\ digestsToKeep' = DigestsOf(keep)
              /\ digestsToDelete' = marked
              /\ IF Len(marked) = 0
                 THEN Return(0, Cardinality(DigestsOf(keep)))
                 ELSE /\ pc' = "delete"
                      /\ UNCHANGED <<result, cleanupVars>>
  /\ UNCHANGED <<config, deleteRequests, repoCalls, tags, tagIdx, digestToTags,
                 delIdx, deleted, timeVars>>

\* the only status deleteManifest takes for a success
Accepted == 202

\* what a DELETE yields: a status, or 0 for a transport error
DeleteResponses == {Accepted, 200, 404, 0}

\* deleteManifest without the dry-run test
deleteManifestAlways(dryRun, status) ==
  [sent |-> TRUE, ok |-> status = Accepted]

\* deleteManifest taking response.ok (any 2xx) for a success
deleteManifestAnyOk(dryRun, status) ==
  IF dryRun THEN [sent |-> FALSE, ok |-> TRUE]
  ELSE [sent |-> TRUE, ok |-> status \in {Accepted, 200}]

\* deleteManifest: true without a request in a dry run, else a DELETE and
\* whether it was answered 202
deleteManifest(dryRun, status) ==
  IF dryRun THEN [sent |-> FALSE, ok |-> TRUE]
  ELSE [sent |-> TRUE, ok |-> status = Accepted]

\* one iteration of the deletion loop, and the return after the last
DeleteManifest ==
  /\ pc = "delete"
  /\ \E status \in DeleteResponses :
       /\ config.dryRun => status = 0
       /\ LET digest == digestsToDelete[delIdx]
              del == deleteManifest(config.dryRun, status)
              n   == IF del.ok THEN deleted + 1 ELSE deleted
          IN  /\ repoCalls' =
                   Append(repoCalls,
                          Call("deleteManifest", <<>>, digest, del.sent, status))
              /\ deleteRequests' =
                   IF del.sent THEN deleteRequests + 1 ELSE deleteRequests
              /\ deleted' = n
              /\ IF delIdx < Len(digestsToDelete)
                 THEN /\ delIdx' = delIdx + 1
                      /\ pc' = "delete"
                      /\ UNCHANGED <<result, cleanupVars>>
                 ELSE /\ delIdx' = delIdx + 1
                      /\ Return(n, Cardinality(digestsToKeep))
  /\ UNCHANGED <<config, tags, tagIdx, tagInfoList, digestToTags, tagsToKeep,
                 digestsToKeep, digestsToDelete, timeVars>>

\* the body of the loop of cleanup after processRepository has returned:
\* the totals, and the next repository or the end of the loop; the locals
\* of processRepository are gone
Accumulate ==
  /\ pc = "returned"
  /\ totalDeleted' = totalDeleted + result.deleted
  /\ totalKept' = totalKept + result.kept
  /\ IF repoIdx < Len(repositories)
     THEN /\ repoIdx' = repoIdx + 1
          /\ pc' = "processRepository"
     ELSE /\ repoIdx' = repoIdx
          /\ pc' = "summary"
  /\ repoCalls' = <<>>
  /\ tags' = <<>>
  /\ tagIdx' = 1
  /\ tagInfoList' = <<>>
  /\ digestToTags' = <<>>
  /\ tagsToKeep' = <<>>
  /\ digestsToKeep' = {}
  /\ digestsToDelete' = <<>>
  /\ delIdx' = 1
  /\ deleted' = 0
  /\ UNCHANGED <<config, exitCode, printed, runCalls, deleteRequests, repositories,
                 result, timeVars>>

SummaryLines ==
  {"Cleanup completed!", "Total manifests deleted", "Total manifests kept"}

\* the summary printed inside the dry-run block only
SummaryInDryRunOnly ==
  /\ pc = "summary"
  /\ printed' =
       printed \cup (IF config.dryRun THEN SummaryLines \cup {"This was a dry run"} ELSE {})
  /\ pc' = "exited"
  /\ UNCHANGED <<config, exitCode, runCalls, deleteRequests, repositories, repoIdx,
                 totalDeleted, totalKept, repoCalls, result, localVars, timeVars>>

\* the end of cleanup and of main: the summary, and the process ends
Summary ==
  /\ pc = "summary"
  /\ printed' =
       printed \cup SummaryLines \cup (IF config.dryRun THEN {"This was a dry run"} ELSE {})
  /\ pc' = "exited"
  /\ UNCHANGED <<config, exitCode, runCalls, deleteRequests, repositories, repoIdx,
                 totalDeleted, totalKept, repoCalls, result, localVars, timeVars>>

Next ==
  \/ CheckAPI
  \/ GetRepositories
  \/ GetTags
  \/ ResolveTag
  \/ Decide
  \/ DeleteManifest
  \/ Accumulate
  \/ Summary

Spec == Init /\ [][Next]_vars

\* ------------------------------------------- the retention decision alone
\* The decision of processRepository over every list of resolved tags: the
\* run stands at the end of the for loop of its only repository, every tag
\* of which resolved to a digest.

\* digests are opaque: a list names them in the order of first appearance
FirstAppearance(digs) ==
  \A i \in DOMAIN digs :
    \/ \E j \in 1..(i - 1) : digs[j] = digs[i]
    \/ digs[i] = 1 + Cardinality({digs[j] : j \in 1..(i - 1)})

RECURSIVE ResolveCalls(_)
ResolveCalls(list) ==
  IF list = <<>> THEN <<Call("getTags", <<>>, 0, TRUE, 0)>>
  ELSE ResolveCalls(SubSeq(list, 1, Len(list) - 1))
         \o <<Call("getManifestDigest", list[Len(list)], 0, TRUE, 0),
               Call("getTagCreatedTime", list[Len(list)], 0, TRUE, 0)>>

RetentionInit ==
  /\ \E r \in RetentionEnv :
       config = [dryRun |-> TRUE, retentionCount |-> RetentionOf(r),
                 repositories |-> <<1>>]
  /\ pc = "decide"
  /\ exitCode = 0
  /\ printed = {}
  /\ runCalls = <<"GET /v2/">>
  /\ deleteRequests = 0
  /\ repositories = <<1>>
  /\ repoIdx = 1
  /\ totalDeleted = 0
  /\ totalKept = 0
  /\ \E n \in 1..MaxTags :
       \E names \in [1..n -> TagNames] :
         /\ \A i, j \in 1..n : i # j => names[i] # names[j]
         /\ \E digs \in [1..n -> Digests] :
              /\ FirstAppearance(digs)
              /\ \E times \in [1..n -> 0..MaxTime] :
                   /\ tags = names
                   /\ tagInfoList = [i \in 1..n |-> TagInfo(names[i], digs[i], times[i])]
  /\ tagIdx = Len(tags) + 1
  /\ digestToTags = GroupTags(tagInfoList)
  /\ repoCalls = ResolveCalls(tags)
  /\ result = NoResult
  /\ tagsToKeep = <<>>
  /\ digestsToKeep = {}
  /\ digestsToDelete = <<>>
  /\ delIdx = 1
  /\ deleted = 0
  /\ view = NoView
  /\ createdTime = 0

RetentionNext == Decide

SpecRetention == RetentionInit /\ [][RetentionNext]_vars

\* --------------------------------------------- getTagCreatedTime alone
\* getTagCreatedTime over every view of the registry.
TimeInit ==
  /\ config = [dryRun |-> TRUE, retentionCount |-> RetentionOf(<<>>),
               repositories |-> <<1>>]
  /\ pc = "getTagCreatedTime"
  /\ exitCode = 0
  /\ printed = {}
  /\ runCalls = <<"GET /v2/">>
  /\ deleteRequests = 0
  /\ repositories = <<1>>
  /\ repoIdx = 1
  /\ totalDeleted = 0
  /\ totalKept = 0
  /\ repoCalls = <<>>
  /\ result = NoResult
  /\ LocalsInit
  /\ view \in RegistryViews
  /\ createdTime = 0

ResolveCreated ==
  /\ pc = "getTagCreatedTime"
  /\ createdTime' = getTagCreatedTime(view)
  /\ pc' = "resolved"
  /\ UNCHANGED <<config, deleteRequests, repoCalls, result, cleanupVars, localVars,
                 view>>

TimeNext == ResolveCreated

SpecTime == TimeInit /\ [][TimeNext]_vars

\* ------------------------------------------------------------- properties
Range(seq) == {seq[i] : i \in DOMAIN seq}

\* processRepository has computed its keep and delete sets
Decided == pc \in {"delete", "returned"} /\ Len(tagInfoList) > 0

\* two resolved tags share a digest
Aliased == Cardinality(DigestsOf(tagInfoList)) < Len(tagInfoList)

\* the digests of the semver-named resolved tags
SemverDigests ==
  {tagInfoList[i].digest : i \in {j \in DOMAIN tagInfoList : isSemverTag(tagInfoList[j].name)}}

\* C1: the keep set and the delete set partition the digests of the
\* resolved tags: they are disjoint, their union is every digest present,
\* and no digest is marked for deletion twice.
C1_KeepDeletePartition ==
  Decided =>
    /\ digestsToKeep \cap Range(digestsToDelete) = {}
    /\ digestsToKeep \cup Range(digestsToDelete) = DigestsOf(tagInfoList)
    /\ Cardinality(Range(digestsToDelete)) = Len(digestsToDelete)

\* C1 witness: a decision with aliased tags that keeps some digests and
\* deletes others
C1_Witness ==
  /\ Decided
  /\ Aliased
  /\ digestsToKeep # {}
  /\ Len(digestsToDelete) >= 1

\* C2 as claimed: if a resolved tag is semver-named, a record of the final
\* keep list is semver-named.
C2_SemverRecordKept ==
  (Decided /\ HasSemver(tagInfoList)) => HasSemver(tagsToKeep)

\* C2 amended: if a resolved tag is semver-named, a record of the final keep
\* list is semver-named or has the digest of a semver-named resolved tag.
C2_SemverRecordOrAliasKept ==
  (Decided /\ HasSemver(tagInfoList)) =>
    \E i \in DOMAIN tagsToKeep :
      isSemverTag(tagsToKeep[i].name) \/ tagsToKeep[i].digest \in SemverDigests

\* C2 witness: the window held no semver-named record and the top-up
\* appended one
C2_Witness ==
  /\ Decided
  /\ ~config.retentionCount.nan
  /\ config.retentionCount.n >= 1
  /\ Len(tagsToKeep) = config.retentionCount.n + 1
  /\ isSemverTag(tagsToKeep[Len(tagsToKeep)].name)
  /\ Aliased

\* the greatest creation time among the resolved tags (0: none is known)
LatestCreated ==
  IF \A i \in DOMAIN tagInfoList : tagInfoList[i].created = 0 THEN 0
  ELSE CHOOSE t \in Times :
         /\ \E i \in DOMAIN tagInfoList : tagInfoList[i].created = t
         /\ \A i \in DOMAIN tagInfoList : tagInfoList[i].created <= t

\* C3 as claimed: when a resolved tag has a known creation time, the digest
\* of a tag with the greatest creation time is kept, is not marked for
\* deletion, and no DELETE request is sent for it.
C3_LatestTagProtected ==
  (Decided /\ LatestCreated # 0) =>
    \E i \in DOMAIN tagInfoList :
      /\ tagInfoList[i].created = LatestCreated
      /\ tagInfoList[i].digest \in digestsToKeep
      /\ tagInfoList[i].digest \notin Range(digestsToDelete)
      /\ \A c \in Range(repoCalls) :
           ~(c.op = "deleteManifest" /\ c.sent /\ c.digest = tagInfoList[i].digest)

\* C4 as claimed: a retentionCount of at least the number of distinct
\* digests leaves the delete set empty.
C4_NoDeleteWhenCountCoversDigests ==
  (/\ Decided
   /\ ~config.retentionCount.nan
   /\ config.retentionCount.n >= Cardinality(DigestsOf(tagInfoList)))
    => digestsToDelete = <<>>

\* C4 amended: a retentionCount of at least the number of resolved tags
\* leaves the delete set empty.
C4_NoDeleteWhenCountCoversTags ==
  (/\ Decided
   /\ ~config.retentionCount.nan
   /\ config.retentionCount.n >= Len(tagInfoList))
    => digestsToDelete = <<>>

\* C4 witness: three aliased tags, a retentionCount of exactly three, and
\* nothing is deleted
C4_Witness ==
  /\ Decided
  /\ Aliased
  /\ Len(tagInfoList) = 3
  /\ ~config.retentionCount.nan
  /\ config.retentionCount.n = 3
  /\ digestsToDelete = <<>>
  /\ Cardinality(digestsToKeep) = 2

\* the deleteManifest calls of the current processRepository
DeleteCalls == SelectSeq(repoCalls, LAMBDA c : c.op = "deleteManifest")

\* the calls of the current processRepository that resolve a tag
ResolveOps == {"getManifestDigest", "getTagCreatedTime"}

\* C5: in a dry run no DELETE request is sent, deleteManifest returns true
\* for every digest, and the deleted count processRepository returns is the
\* size of its delete set.
C5_DryRunSendsNothing ==
  config.dryRun =>
    /\ deleteRequests = 0
    /\ \A c \in Range(repoCalls) : ~(c.op = "deleteManifest" /\ c.sent)
    /\ deleted = Len(DeleteCalls)
    /\ pc = "returned" => result.deleted = Len(digestsToDelete)

\* C5 witness: a dry run has gone through a delete set of two digests
C5_Witness ==
  /\ config.dryRun
  /\ pc = "returned"
  /\ Len(digestsToDelete) = 2
  /\ result.deleted = 2

\* C6: after a failed probe the process has ended with status 1, and the
\* probe is the only request of the run: no repository list, no call of
\* processRepository, no DELETE.
C6_FailedProbeAborts ==
  exitCode = 1 =>
    /\ pc = "exited"
    /\ runCalls = <<"GET /v2/">>
    /\ repositories = <<>>
    /\ repoIdx = 0
    /\ repoCalls = <<>>
    /\ deleteRequests = 0

\* C6 witness: the probe has failed
C6_Witness == exitCode = 1 /\ pc = "exited"

\* C7: in a run that is not dry, the digests DELETE was sent for are, in
\* order and once each, the digests of the delete set gone through so far;
\* the deleted count is the number of DELETEs answered 202; no failed
\* delete ends the process; and when the loop of cleanup ends, every
\* repository has been processed.
C7_FailedDeleteGoesOn ==
  ~config.dryRun =>
    /\ \A c \in Range(DeleteCalls) : c.sent
    /\ [i \in DOMAIN DeleteCalls |-> DeleteCalls[i].digest]
         = SubSeq(digestsToDelete, 1, delIdx - 1)
    /\ deleted = Len(SelectSeq(DeleteCalls, LAMBDA c : c.status = Accepted))
    /\ pc = "returned" =>
         /\ Len(DeleteCalls) = Len(digestsToDelete)
         /\ result.deleted = deleted
    /\ Len(DeleteCalls) > 0 => exitCode = 0
    /\ pc = "summary" => repoIdx = Len(repositories)
    /\ (pc = "exited" /\ exitCode = 0 /\ Len(repositories) > 0)
         => repoIdx = Len(repositories)
    /\ totalDeleted + deleted <= deleteRequests

\* C7 witness: an earlier repository had a failed delete, and in the second
\* repository the first of two deletes failed and the second was accepted
C7_Witness ==
  /\ ~config.dryRun
  /\ repoIdx = 2
  /\ pc = "returned"
  /\ Len(DeleteCalls) = 2
  /\ DeleteCalls[1].status # Accepted
  /\ DeleteCalls[2].status = Accepted
  /\ result.deleted = 1
  /\ deleteRequests > totalDeleted + 2

\* The sources of a creation time as C8 names them, 0 for an absent or
\* malformed one: the config blob's created, the label, the first history
\* entry, the attestation.
ClaimedSources(v) ==
  <<IF v.manifest.hasConfig /\ v.config.ok THEN v.config.created ELSE 0,
    IF v.manifest.hasConfig /\ v.config.ok THEN v.config.label ELSE 0,
    IF v.manifest.history.kind = "object" THEN v.manifest.history.created ELSE 0,
    IF v.head # 0 THEN getAttestationBuildTime(v) ELSE 0>>

\* the first source present, 0 when every source is absent
FirstPresent(sources) ==
  IF \A i \in DOMAIN sources : sources[i] = 0 THEN 0
  ELSE sources[CHOOSE i \in DOMAIN sources :
                 sources[i] # 0 /\ \A j \in 1..(i - 1) : sources[j] = 0]

\* C8 as claimed: for a manifest that could be fetched, getTagCreatedTime
\* returns the timestamp of the first source that is present and
\* well-formed, a malformed source counting as absent.
C8_FirstPresentSource ==
  (pc = "resolved" /\ view.manifest.ok) =>
    createdTime = FirstPresent(ClaimedSources(view))

\* C9 as claimed: a run that ends with status 0 has printed the summary.
C9_SummaryBeforeExitZero ==
  (pc = "exited" /\ exitCode = 0) => SummaryLines \subseteq printed

\* C9 amended: a run that ends with status 0 has printed the summary when
\* its repository list was not empty, and "No repositories found" and no
\* summary when it was empty.
C9_SummaryUnlessNoRepositories ==
  (pc = "exited" /\ exitCode = 0) =>
    IF Len(repositories) > 0
    THEN SummaryLines \subseteq printed
    ELSE "No repositories found" \in printed /\ SummaryLines \cap printed = {}

\* C9 witness: a run that was not dry went through two repositories,
\* deleted, and ended with status 0
C9_Witness ==
  /\ pc = "exited"
  /\ exitCode = 0
  /\ ~config.dryRun
  /\ Len(repositories) = 2
  /\ totalDeleted > 0
  /\ SummaryLines \subseteq printed

\* C10: within one processRepository no call that resolves a tag follows a
\* deleteManifest call, and by the first deleteManifest call every tag has
\* had its digest requested and every tag with a digest its creation time.
C10_ResolveBeforeDelete ==
  /\ \A i, j \in DOMAIN repoCalls :
       (i < j /\ repoCalls[i].op = "deleteManifest") => repoCalls[j].op \notin ResolveOps
  /\ (pc = "delete" \/ Len(DeleteCalls) > 0) =>
       /\ tagIdx = Len(tags) + 1
       /\ Len(SelectSeq(repoCalls, LAMBDA c : c.op = "getManifestDigest")) = Len(tags)
       /\ Len(SelectSeq(repoCalls, LAMBDA c : c.op = "getTagCreatedTime"))
            = Len(tagInfoList)

\* C10 witness: two tags were resolved and two deletes followed
C10_Witness ==
  /\ Len(tagInfoList) = 2
  /\ Len(DeleteCalls) = 2
  /\ ~config.dryRun

\* C11: when a resolved tag is semver-named, the keep set is not empty and
\* holds the digest of a semver-named resolved tag.
C11_SemverDigestKept ==
  (Decided /\ HasSemver(tagInfoList)) =>
    /\ digestsToKeep # {}
    /\ digestsToKeep \cap SemverDigests # {}

\* C11 witness: with a retentionCount of 0 and a semver-named tag sharing
\* its digest with another tag, the keep set is that digest alone and
\* another digest is deleted
C11_Witness ==
  /\ Decided
  /\ ~config.retentionCount.nan
  /\ config.retentionCount.n = 0
  /\ \E i \in DOMAIN tagInfoList :
       /\ ~isSemverTag(tagInfoList[i].name)
       /\ tagInfoList[i].digest \in SemverDigests
       /\ digestsToKeep = {tagInfoList[i].digest}
  /\ Len(digestsToDelete) >= 1

====
